---- MODULE Spec2Model ----
(***************************************************************************)
(* A model of gorphanage's reachability analyzer (analyzer.go,             *)
(* symbols.go, references, reachability.go): the pipeline of Analyze over  *)
(* the packages returned by the loader.                                    *)
(*                                                                         *)
(* Strings are sequences of one-character strings, so that formatting a    *)
(* key, testing a prefix and testing the case of the first letter are      *)
(* computed as the code computes them.  A syntax tree is the sequence of   *)
(* its nodes in the order ast.Inspect visits them.                         *)
(***************************************************************************)
EXTENDS Naturals, Sequences, FiniteSets, Bags, TLC

\* The most files a loaded project holds.
MaxFiles == 3

\* The most files of a project that is analyzed under every configuration.
MaxCliFiles == 2

----------------------------------------------------------------------------
\* Strings of the program

S_main == <<"m","a","i","n">>
S_init == <<"i","n","i","t">>
S_function == <<"f","u","n","c","t","i","o","n">>
S_type == <<"t","y","p","e">>
S_variable == <<"v","a","r","i","a","b","l","e">>
S_constant == <<"c","o","n","s","t","a","n","t">>
S_unknown == <<"u","n","k","n","o","w","n">>
S_Test == <<"T","e","s","t">>
S_Benchmark == <<"B","e","n","c","h","m","a","r","k">>
S_Example == <<"E","x","a","m","p","l","e">>
S_blank == <<"_">>

\* Names and package paths of the projects below
S_cmd == <<"c","m","d">>
S_lib == <<"l","i","b">>
S_util == <<"u","t","i","l">>
S_bad == <<"b","a","d">>
S_fmt == <<"f","m","t">>
S_Do == <<"D","o">>
S_hlp == <<"h","l","p">>
S_used == <<"u","s","e","d">>
S_unused == <<"u","n","u","s","e","d">>
S_stale == <<"s","t","a","l","e">>
S_cfg == <<"c","f","g">>
S_Lim == <<"L","i","m">>
S_Exp == <<"E","x","p">>
S_Pub == <<"P","u","b">>
S_priv == <<"p","r","i","v">>
S_x == <<"x">>
S_len == <<"l","e","n">>
S_Println == <<"P","r","i","n","t","l","n">>
S_TestF == <<"T","e","s","t","F">>
S_TestT == <<"T","e","s","t","T">>
S_BenchmarkV == <<"B","e","n","c","h","m","a","r","k","V">>
S_ExampleC == <<"E","x","a","m","p","l","e","C">>
S_ta == <<"t","a">>
S_tb == <<"t","b">>
S_run == <<"r","u","n">>
S_Go == <<"G","o">>
S_out == <<"o","u","t">>
S_dottest == <<".","t","e","s","t">>
S_utest == <<"_","t","e","s","t">>

UpperCase == {"A","B","C","D","E","F","G","H","I","J","K","L","M",
              "N","O","P","Q","R","S","T","U","V","W","X","Y","Z"}

Range(s) == { s[i] : i \in 1..Len(s) }

\* strings.HasPrefix
HasPrefix(s, prefix) ==
    /\ Len(s) >= Len(prefix)
    /\ SubSeq(s, 1, Len(prefix)) = prefix

\* strings.Contains
Contains(s, substr) ==
    \E i \in 0..(Len(s) - Len(substr)) : SubSeq(s, i + 1, i + Len(substr)) = substr

\* ast.IsExported: the first letter is upper case
IsExported(name) == Len(name) > 0 /\ name[1] \in UpperCase

----------------------------------------------------------------------------
\* Syntax trees, as the loader returns them.  A node is a record; the fields
\* a node type does not have are empty.  class is the class of the object
\* that TypesInfo.Uses resolves an identifier to ("none": not in Uses).

Node(type, name, tok, pkg, class, top) ==
    [type |-> type, name |-> name, tok |-> tok, pkg |-> pkg, class |-> class, top |-> top]

\* An identifier that is not a use (the name of a declaration, a field label)
DefIdent(name) == Node("Ident", name, "", <<>>, "none", FALSE)
\* An identifier that TypesInfo.Uses resolves to an object of package pkg
\* (pkg is "" for an object without a package: a built-in)
UseIdent(pkg, name, class) == Node("Ident", name, "", pkg, class, FALSE)

FuncDecl(name) == << Node("FuncDecl", name, "", <<>>, "", TRUE), DefIdent(name) >>
TypeSpec(name) == << Node("TypeSpec", name, "type", <<>>, "", TRUE), DefIdent(name) >>
VarSpec(name) == << Node("ValueSpec", name, "var", <<>>, "", TRUE), DefIdent(name) >>
ConstSpec(name) == << Node("ValueSpec", name, "const", <<>>, "", TRUE), DefIdent(name) >>

\* q.name in a file of package self: the selector expression, then its
\* children, the package name q and the selected identifier
Qualified(self, q, name, class) ==
    << Node("SelectorExpr", name, "", q, class, FALSE),
       UseIdent(self, q, "PkgName"),
       UseIdent(q, name, class) >>

File(pkgPath, pkgName, errors, filename, nodes) ==
    [PkgPath |-> pkgPath, PkgName |-> pkgName, Errors |-> errors,
     File |-> filename, nodes |-> nodes]

\* A variable declared inside a function body
LocalVarSpec(name) == << Node("ValueSpec", name, "var", <<>>, "", FALSE), DefIdent(name) >>

\* A constant declared inside a function body
LocalConstSpec(name) == << Node("ValueSpec", name, "const", <<>>, "", FALSE), DefIdent(name) >>

\* x.name in a file of package self, x a variable: the selector expression,
\* then its children, the operand x and the selected method
Selected(self, x, name) ==
    << Node("SelectorExpr", name, "", self, "Func", FALSE),
       UseIdent(self, x, "Var"),
       UseIdent(self, name, "Func") >>

\* func (recv) name(): the declaration, then its children, the receiver's
\* type and the name
MethodDecl(self, recv, name) ==
    << Node("FuncDecl", name, "", <<>>, "", TRUE),
       UseIdent(self, recv, "TypeName"),
       DefIdent(name) >>

\* import alias "path": the import declaration's spec, then the alias, which
\* is an identifier of TypesInfo.Defs
ImportSpec(alias) == << Node("ImportSpec", alias, "import", <<>>, "", TRUE), DefIdent(alias) >>

\* label: value in a composite literal whose label TypesInfo.Uses does not
\* resolve
KeyValueExpr(label) == << Node("KeyValueExpr", label, "", <<>>, "", FALSE), DefIdent(label) >>

\* alias.name in a file of package self, alias the name that the file
\* imports package q under
QualifiedAs(self, alias, q, name, class) ==
    << Node("SelectorExpr", name, "", q, class, FALSE),
       UseIdent(self, alias, "PkgName"),
       UseIdent(q, name, class) >>

\* The files projects are made of.  The nodes of a declaration's body follow
\* its node, up to the next top-level declaration.
CmdFiles ==
    { \* func main() { lib.Do(); fmt.Println() }
      File(S_cmd, S_main, FALSE, "cmd/main.go",
           FuncDecl(S_main) \o Qualified(S_cmd, S_lib, S_Do, "Func")
                            \o Qualified(S_cmd, S_fmt, S_Println, "Func")),
      \* func main() { hlp() }; func hlp() {}
      File(S_cmd, S_main, FALSE, "cmd/app.go",
           FuncDecl(S_main) \o << UseIdent(S_cmd, S_hlp, "Func") >>
                            \o FuncDecl(S_hlp)),
      \* func init() { used(); len(x) }; func used() {}
      File(S_cmd, S_main, FALSE, "cmd/init.go",
           FuncDecl(S_init) \o << UseIdent(S_cmd, S_used, "Func"),
                                  UseIdent(<<>>, S_len, "Builtin"),
                                  UseIdent(S_cmd, S_x, "Var") >>
                            \o FuncDecl(S_used)),
      \* func unused() {}; func TestF() {}
      File(S_cmd, S_main, FALSE, "cmd/extra.go",
           FuncDecl(S_unused) \o FuncDecl(S_TestF)),
      \* func Exp() { cfg = cfg }; var cfg
      File(S_cmd, S_main, FALSE, "cmd/exp.go",
           FuncDecl(S_Exp) \o << UseIdent(S_cmd, S_cfg, "Var"),
                                 UseIdent(S_cmd, S_cfg, "Var") >>
                           \o VarSpec(S_cfg)) }

LibFiles ==
    { \* func Do() { hlp(); cfg (a local) }; func hlp() {}
      File(S_lib, S_lib, FALSE, "lib/do.go",
           FuncDecl(S_Do) \o << UseIdent(S_lib, S_hlp, "Func"),
                                UseIdent(S_lib, S_cfg, "Var") >>
                          \o FuncDecl(S_hlp)),
      \* var cfg = Lim; const Lim
      File(S_lib, S_lib, FALSE, "lib/cfg.go",
           VarSpec(S_cfg) \o << UseIdent(S_lib, S_Lim, "Const") >>
                          \o ConstSpec(S_Lim)),
      \* func stale() { TestT; stale() }; type TestT
      File(S_lib, S_lib, FALSE, "lib/stale.go",
           FuncDecl(S_stale) \o << UseIdent(S_lib, S_TestT, "TypeName"),
                                   UseIdent(S_lib, S_stale, "Func") >>
                             \o TypeSpec(S_TestT)),
      \* func init() { stale() }
      File(S_lib, S_lib, FALSE, "lib/init.go",
           FuncDecl(S_init) \o << UseIdent(S_lib, S_stale, "Func") >>),
      \* var BenchmarkV; const ExampleC
      File(S_lib, S_lib, FALSE, "lib/bench.go",
           VarSpec(S_BenchmarkV) \o ConstSpec(S_ExampleC)),
      \* func priv() { var cfg; cfg; used() }; func used() {}
      File(S_lib, S_lib, FALSE, "lib/local.go",
           FuncDecl(S_priv) \o LocalVarSpec(S_cfg)
                            \o << UseIdent(S_lib, S_cfg, "Var"),
                                  UseIdent(S_lib, S_used, "Func") >>
                            \o FuncDecl(S_used)),
      \* func _() { var _ }; type _; var _; const _
      File(S_lib, S_lib, FALSE, "lib/blank.go",
           FuncDecl(S_blank) \o LocalVarSpec(S_blank) \o TypeSpec(S_blank)
                             \o VarSpec(S_blank) \o ConstSpec(S_blank)),
      \* type ta; type tb; func (ta) run() {}; func (tb) run() {};
      \* func Go() { x.run() }
      File(S_lib, S_lib, FALSE, "lib/meth.go",
           TypeSpec(S_ta) \o TypeSpec(S_tb)
                          \o MethodDecl(S_lib, S_ta, S_run)
                          \o MethodDecl(S_lib, S_tb, S_run)
                          \o FuncDecl(S_Go) \o Selected(S_lib, S_x, S_run)),
      \* import out "fmt"; func init() { const cfg = 1; out.Println(T{x: cfg}) }
      File(S_lib, S_lib, FALSE, "lib/setup.go",
           ImportSpec(S_out) \o FuncDecl(S_init)
                             \o LocalConstSpec(S_cfg)
                             \o QualifiedAs(S_lib, S_out, S_fmt, S_Println, "Func")
                             \o KeyValueExpr(S_x)
                             \o << UseIdent(S_lib, S_cfg, "Const") >>) }

OtherFiles ==
    { \* func Pub() { lib.Do(); priv() }; func priv() {}
      File(S_util, S_util, FALSE, "util/pub.go",
           FuncDecl(S_Pub) \o Qualified(S_util, S_lib, S_Do, "Func")
                           \o << UseIdent(S_util, S_priv, "Func") >>
                           \o FuncDecl(S_priv)),
      \* A package that does not type-check
      File(S_bad, S_main, TRUE, "bad/main.go",
           FuncDecl(S_main) \o Qualified(S_bad, S_lib, S_stale, "Func")) }

\* The test files: the loader returns them only when Config.Tests is set
TestFiles ==
    { \* func TestT(t *testing.T) {}
      File(S_cmd, S_main, FALSE, "cmd/app_test.go", FuncDecl(S_TestT)) }

FileMenu == CmdFiles \cup LibFiles \cup OtherFiles \cup TestFiles

\* The loader lists the packages by path and the files of a package by name
FileOrder ==
    << "bad/main.go", "cmd/app.go", "cmd/app_test.go", "cmd/exp.go", "cmd/extra.go",
       "cmd/init.go", "cmd/main.go", "lib/bench.go", "lib/blank.go", "lib/cfg.go",
       "lib/do.go", "lib/init.go", "lib/local.go", "lib/meth.go", "lib/setup.go",
       "lib/stale.go", "util/pub.go" >>

FileAt(i) == CHOOSE f \in FileMenu : f.File = FileOrder[i]

\* The files with the indexes I, in the loader's order
RECURSIVE SortedFiles(_)
SortedFiles(I) ==
    IF I = {} THEN <<>>
    ELSE LET last == CHOOSE i \in I : \A j \in I : j <= i
         IN  Append(SortedFiles(I \ {last}), FileAt(last))

\* The sequences of at most n different files, in the loader's order
FileSeqs(n) ==
    { SortedFiles(I) : I \in { J \in SUBSET (1..Len(FileOrder)) : Cardinality(J) <= n } }

\* packages.Package: the loader's packages of a sequence of files, in the
\* order of the first file of each
RECURSIVE GroupPackages(_)
GroupPackages(fs) ==
    IF fs = <<>> THEN <<>>
    ELSE LET n == Len(fs)
             f == fs[n]
             before == GroupPackages(SubSeq(fs, 1, n - 1))
             file == [File |-> f.File, nodes |-> f.nodes]
         IN  IF \E i \in 1..Len(before) : before[i].PkgPath = f.PkgPath
             THEN [ i \in 1..Len(before) |->
                      IF before[i].PkgPath = f.PkgPath
                      THEN [before[i] EXCEPT !.Syntax = Append(@, file),
                                             !.CompiledGoFiles = Append(@, f.File)]
                      ELSE before[i] ]
             ELSE Append(before, [PkgPath |-> f.PkgPath, Name |-> f.PkgName,
                                  Errors |-> f.Errors, Syntax |-> << file >>,
                                  CompiledGoFiles |-> << f.File >>])

\* The names a file declares at top level
TopNames(file) ==
    { file.nodes[i].name : i \in { j \in 1..Len(file.nodes) :
          file.nodes[j].type \in {"FuncDecl", "TypeSpec", "ValueSpec"} /\ file.nodes[j].top } }

\* The class of the object a declaration node declares
DeclClass(node) ==
    CASE node.type = "FuncDecl" -> "Func"
      [] node.type = "TypeSpec" -> "TypeName"
      [] node.type = "ValueSpec" -> IF node.tok = "const" THEN "Const" ELSE "Var"
      [] OTHER -> "none"

\* Package pkg declares name as an object of the class, at top level or, for
\* a use in one of its files, inside a function of that file
Declared(pkg, name, class, file) ==
    \E i \in 1..Len(pkg.Syntax) : \E j \in 1..Len(pkg.Syntax[i].nodes) :
        LET node == pkg.Syntax[i].nodes[j]
        IN  /\ node.name = name
            /\ DeclClass(node) = class
            /\ node.top \/ pkg.Syntax[i] = file

\* What the type checker accepts: no two files of a package declare one name,
\* except that every file may have its own init function; and a use of a
\* function, type or constant of a package of the project resolves to a
\* declaration (a variable may be a parameter or declared by :=)
Compiles(p, pkg) ==
    /\ \A i, j \in 1..Len(pkg.Syntax) :
           i # j => (TopNames(pkg.Syntax[i]) \cap TopNames(pkg.Syntax[j])) \subseteq {S_init}
    /\ \A i \in 1..Len(pkg.Syntax) : \A j \in 1..Len(pkg.Syntax[i].nodes) :
           LET node == pkg.Syntax[i].nodes[j]
           IN  /\ node.type \in {"Ident", "SelectorExpr"}
               /\ node.class \in {"Func", "TypeName", "Const"}
               /\ \E k \in 1..Len(p) : p[k].PkgPath = node.pkg
               => \E k \in 1..Len(p) :
                      /\ p[k].PkgPath = node.pkg
                      /\ Declared(p[k], node.name, node.class, pkg.Syntax[i])

IsTestFile(f) == f \in TestFiles
IsGoFile(f) == f \notin TestFiles

\* The names of the test functions of a sequence of test files
RECURSIVE TestNames(_)
TestNames(tfs) ==
    IF tfs = <<>> THEN <<>>
    ELSE LET nodes == Head(tfs).nodes
             decls == SelectSeq(nodes, LAMBDA node : node.type = "FuncDecl" /\ node.top)
         IN  [ i \in 1..Len(decls) |-> decls[i].name ] \o TestNames(Tail(tfs))

\* The generated main file of a test binary: func main() and the test
\* functions it registers, qualified by the name _test
RECURSIVE TestMainNodes(_, _)
TestMainNodes(pkgPath, names) ==
    IF names = <<>> THEN FuncDecl(S_main)
    ELSE TestMainNodes(pkgPath, SubSeq(names, 1, Len(names) - 1)) \o
         QualifiedAs(pkgPath \o S_dottest, S_utest, pkgPath, names[Len(names)], "Func")

\* With Config.Tests the loader returns, after a package that has test
\* files, the package as compiled for its test (the same path, the test
\* files added) and the test binary (package main, path p.test)
TestPackages(pkg, tfs) ==
    IF tfs = <<>> THEN <<>>
    ELSE << [pkg EXCEPT !.Syntax = @ \o [ i \in 1..Len(tfs) |->
                                             [File |-> tfs[i].File, nodes |-> tfs[i].nodes] ],
                        !.CompiledGoFiles = @ \o [ i \in 1..Len(tfs) |-> tfs[i].File ]],
            [PkgPath |-> pkg.PkgPath \o S_dottest, Name |-> S_main, Errors |-> FALSE,
             Syntax |-> << [File |-> "_testmain.go",
                            nodes |-> TestMainNodes(pkg.PkgPath, TestNames(tfs))] >>,
             CompiledGoFiles |-> << "_testmain.go" >>] >>

RECURSIVE WithTestPackages(_, _)
WithTestPackages(pkgs, fs) ==
    IF pkgs = <<>> THEN <<>>
    ELSE LET pkg == Head(pkgs)
         IN  << pkg >> \o TestPackages(pkg, SelectSeq(fs, LAMBDA f : IsTestFile(f) /\ f.PkgPath = pkg.PkgPath))
                      \o WithTestPackages(Tail(pkgs), fs)

\* packages.Load(cfg, "./...") on the files fs, with cfg.Tests = tests
Load(fs, tests) ==
    LET pkgs == GroupPackages(SelectSeq(fs, IsGoFile))
    IN  IF tests THEN WithTestPackages(pkgs, fs) ELSE pkgs

\* The files of a project: the packages without errors compile, with their
\* tests, and a test file comes with a file of its package
ValidFiles(fs) ==
    LET p == Load(fs, TRUE)
    IN  /\ \A i \in 1..Len(p) : ~p[i].Errors => Compiles(p, p[i])
        /\ \A i \in 1..Len(fs) : IsTestFile(fs[i]) =>
               \E j \in 1..Len(fs) : IsGoFile(fs[j]) /\ fs[j].PkgPath = fs[i].PkgPath

\* What the loader returns for the projects of at most n files
ProjectsOf(n, tests) ==
    { Load(fs, tests) : fs \in { g \in FileSeqs(n) : ValidFiles(g) } }

Projects == ProjectsOf(MaxFiles, FALSE)

CliProjects(tests) == ProjectsOf(MaxCliFiles, tests)

----------------------------------------------------------------------------
\* State of one run of the analyzer

VARIABLES
    loaded,        \* what packages.Load returns for the project
    config,        \* Config
    pc,            \* the stage Analyze is at
    packages,      \* Analyzer.packages
    symbols,       \* Analyzer.symbols: key -> Symbol
    references,    \* Analyzer.references: key -> sequence of Reference
    reachable,     \* Analyzer.reachable: the keys stored (always with true)
    mainPackages,  \* Analyzer.mainPackages
    queue,         \* traceReachability's queue
    visited,       \* traceReachability's visited
    expanded,      \* how often findReferencedSymbols was called on each key
    next,          \* findEntryPoints: the index of the next entry-point package
    result,        \* what Analyze returns
    stdout,        \* the lines written to standard output, by their stage
    exit           \* the exit code of the process, once it has exited

vars == << loaded, config, pc, packages, symbols, references, reachable,
           mainPackages, queue, visited, expanded, next, result, stdout, exit >>

EmptyMap == [ k \in {} |-> {} ]

\* The configurations of a run
Configs ==
    { [Verbose |-> FALSE, OutputJSON |-> FALSE, Exclude |-> <<>>, IncludeTests |-> FALSE] }

S_utiStar == <<"u","t","i","*">>

\* The flags of the command line: --verbose, --json, --exclude and
\* --include-tests
CliConfigs ==
    { [Verbose |-> v, OutputJSON |-> j, Exclude |-> IF v THEN << S_utiStar >> ELSE <<>>,
       IncludeTests |-> t] : v, j, t \in BOOLEAN }

\* runAnalysis up to NewAnalyzer, for the projects of at most n files and the
\* configurations given
InitOf(n, configs) ==
    /\ config \in configs
    /\ loaded \in ProjectsOf(n, config.IncludeTests)
    /\ pc = "loadProject"
    /\ packages = <<>>
    /\ symbols = EmptyMap
    /\ references = EmptyMap
    /\ reachable = {}
    /\ mainPackages = <<>>
    /\ queue = <<>>
    /\ visited = {}
    /\ expanded = EmptyBag
    /\ next = 1
    /\ result = [value |-> <<>>, err |-> ""]
    /\ stdout = IF config.Verbose /\ ~config.OutputJSON
                THEN << "runAnalysis" >>
                     \o (IF Len(config.Exclude) > 0 THEN << "runAnalysis" >> ELSE <<>>)
                     \o (IF config.IncludeTests THEN << "runAnalysis" >> ELSE <<>>)
                ELSE <<>>
    /\ exit = <<>>

Init == InitOf(MaxFiles, Configs)

InitCLI == InitOf(MaxCliFiles, CliConfigs)

----------------------------------------------------------------------------
\* analyzer.go

\* fmt.Sprintf("%s.%s.%s", pkgPath, name, kind)
getSymbolKey(pkgPath, name, kind) == pkgPath \o <<".">> \o name \o <<".">> \o kind

\* strings.Trim(pattern, "*")
RECURSIVE TrimStars(_)
TrimStars(pattern) ==
    IF pattern = <<>> THEN <<>>
    ELSE IF Head(pattern) = "*" THEN TrimStars(Tail(pattern))
    ELSE IF pattern[Len(pattern)] = "*" THEN TrimStars(SubSeq(pattern, 1, Len(pattern) - 1))
    ELSE pattern

\* filepath.Match for patterns of literal characters and "*", which matches
\* any sequence of characters other than the separator
RECURSIVE Match(_, _)
Match(pattern, name) ==
    IF pattern = <<>> THEN name = <<>>
    ELSE IF Head(pattern) = "*"
         THEN \E k \in 0..Len(name) :
                  /\ \A i \in 1..k : name[i] # "/"
                  /\ Match(Tail(pattern), SubSeq(name, k + 1, Len(name)))
         ELSE /\ name # <<>>
              /\ Head(name) = Head(pattern)
              /\ Match(Tail(pattern), Tail(name))

isPackageExcluded(pkgPath) ==
    \E i \in 1..Len(config.Exclude) :
        \/ Match(config.Exclude[i], pkgPath)
        \/ Contains(pkgPath, TrimStars(config.Exclude[i]))

\* The lines a stage prints when the test is of Verbose alone
Say_VerboseOnly(lines) == IF config.Verbose THEN stdout \o lines ELSE stdout

\* The lines a stage prints: none unless Verbose && !OutputJSON
Say(lines) == IF config.Verbose /\ ~config.OutputJSON THEN stdout \o lines ELSE stdout

\* What Analyze returns: the result, if any, and the error ("": nil)
Returned(value, err) == [value |-> value, err |-> err]

\* The filter of loadProject without the test of the package's errors
KeepPackage_IgnoreErrors(pkg) == ~isPackageExcluded(pkg.PkgPath)

KeepPackage(pkg) == ~pkg.Errors /\ ~isPackageExcluded(pkg.PkgPath)

\* The lines loadProject prints before it loads
LoadingLines ==
    << "loadProject" >> \o (IF config.IncludeTests THEN << "loadProject" >> ELSE <<>>)

\* loadProject keeping the error of packages.Load while Analyze goes on to
\* the next stage
LoadProjectFails_GoesOn ==
    /\ pc = "loadProject"
    /\ pc' = "findSymbols"
    /\ packages' = SelectSeq(loaded, LAMBDA pkg : ~pkg.Errors)
    /\ result' = Returned(<<>>, "loading project")
    /\ stdout' = Say(LoadingLines)
    /\ UNCHANGED << loaded, config, symbols, references, reachable,
                    mainPackages, queue, visited, expanded, next, exit >>

\* loadProject, when packages.Load returns an error
LoadProjectFails ==
    /\ pc = "loadProject"
    /\ pc' = "done"
    /\ result' = Returned(<<>>, "loading project")
    /\ stdout' = Say(LoadingLines)
    /\ UNCHANGED << loaded, config, packages, symbols, references, reachable,
                    mainPackages, queue, visited, expanded, next, exit >>

\* loadProject, when packages.Load returns the packages
LoadProject ==
    /\ pc = "loadProject"
    /\ packages' = SelectSeq(loaded, KeepPackage)
    /\ pc' = "findSymbols"
    /\ stdout' = Say(LoadingLines \o
                     [ i \in 1..(Len(loaded) - Len(SelectSeq(loaded, KeepPackage))) |-> "loadProject" ]
                     \o << "Analyze" >>)
    /\ UNCHANGED << loaded, config, symbols, references, reachable,
                    mainPackages, queue, visited, expanded, next, result, exit >>

----------------------------------------------------------------------------
\* symbols.go

\* A position is the index of the node in its file
Symbol(pkg, name, kind, filename, pos) ==
    [Name |-> name, Kind |-> kind, File |-> filename, Start |-> pos,
     Exported |-> IsExported(name), Package |-> pkg.PkgPath]

\* A store that keeps the entry a key has already
Store_FirstWins(syms, key, symbol) == syms @@ (key :> symbol)

\* a.symbols[key] = symbol
Store(syms, key, symbol) == (key :> symbol) @@ syms

processFunctionDecl(syms, pkg, node, filename, pos) ==
    IF node.name = S_blank THEN syms
    ELSE Store(syms, getSymbolKey(pkg.PkgPath, node.name, S_function),
               Symbol(pkg, node.name, S_function, filename, pos))

processTypeSpec(syms, pkg, node, filename, pos) ==
    IF node.name = S_blank THEN syms
    ELSE Store(syms, getSymbolKey(pkg.PkgPath, node.name, S_type),
               Symbol(pkg, node.name, S_type, filename, pos))

\* processValueSpec without the test of the blank name
processValueSpec_KeepBlank(syms, pkg, node, filename, pos) ==
    LET kind == IF node.tok = "const" THEN S_constant ELSE S_variable
    IN  Store(syms, getSymbolKey(pkg.PkgPath, node.name, kind),
              Symbol(pkg, node.name, kind, filename, pos))

processValueSpec(syms, pkg, node, filename, pos) ==
    IF node.name = S_blank THEN syms
    ELSE LET kind == IF node.tok = "const" THEN S_constant ELSE S_variable
         IN  Store(syms, getSymbolKey(pkg.PkgPath, node.name, kind),
                   Symbol(pkg, node.name, kind, filename, pos))

\* One node of the walk of findSymbolsInFile: every declaration node that
\* ast.Inspect visits, at top level or not
SymbolOfNode(syms, pkg, node, filename, pos) ==
    CASE node.type = "FuncDecl" -> processFunctionDecl(syms, pkg, node, filename, pos)
      [] node.type = "TypeSpec" -> processTypeSpec(syms, pkg, node, filename, pos)
      [] node.type = "ValueSpec" -> processValueSpec(syms, pkg, node, filename, pos)
      [] OTHER -> syms

\* The loops below write one table, turn after turn. Each turn takes the table
\* that the turns before it have left (before) as a value and yields the table
\* it leaves (after)
RECURSIVE findSymbolsInFile(_, _, _, _, _)
findSymbolsInFile(syms, pkg, file, filename, n) ==
    IF n = 0 THEN syms
    ELSE CHOOSE after \in
             { SymbolOfNode(before, pkg, file.nodes[n], filename, n) :
                   before \in { findSymbolsInFile(syms, pkg, file, filename, n - 1) } } : TRUE

\* The loop over the files of a package leaving after the first file
SymbolsOfFiles_FirstOnly(syms, pkg, n) ==
    IF n = 0 \/ Len(pkg.CompiledGoFiles) = 0 THEN syms
    ELSE findSymbolsInFile(syms, pkg, pkg.Syntax[1], pkg.CompiledGoFiles[1],
                           Len(pkg.Syntax[1].nodes))

RECURSIVE SymbolsOfFiles(_, _, _)
SymbolsOfFiles(syms, pkg, n) ==
    IF n = 0 THEN syms
    ELSE CHOOSE after \in
             { IF n <= Len(pkg.CompiledGoFiles)
               THEN findSymbolsInFile(before, pkg, pkg.Syntax[n], pkg.CompiledGoFiles[n],
                                      Len(pkg.Syntax[n].nodes))
               ELSE before : before \in { SymbolsOfFiles(syms, pkg, n - 1) } } : TRUE

RECURSIVE findSymbols(_, _, _)
findSymbols(syms, pkgs, n) ==
    IF n = 0 THEN syms
    ELSE SymbolsOfFiles(findSymbols(syms, pkgs, n - 1), pkgs[n], Len(pkgs[n].Syntax))

FindSymbols ==
    /\ pc = "findSymbols"
    /\ symbols' = findSymbols(symbols, packages, Len(packages))
    /\ pc' = "findReferences"
    /\ stdout' = Say(<< "Analyze" >>)
    /\ UNCHANGED << loaded, config, packages, references, reachable,
                    mainPackages, queue, visited, expanded, next, result, exit >>

----------------------------------------------------------------------------
\* references

getObjectKind(class) ==
    CASE class = "Func" -> S_function
      [] class = "TypeName" -> S_type
      [] class = "Const" -> S_constant
      [] class = "Var" -> S_variable
      [] OTHER -> S_unknown

\* The key of the object that a resolved identifier is a use of
refKeyOf(node) == getSymbolKey(node.pkg, node.name, getObjectKind(node.class))

\* a.references[key] = append(a.references[key], Reference{...})
AddReference(refs, key, filename, pos) ==
    LET old == IF key \in DOMAIN refs THEN refs[key] ELSE <<>>
    IN  (key :> Append(old, [File |-> filename, Position |-> pos])) @@ refs

processIdentReference(refs, node, filename, pos) ==
    IF node.class = "none" THEN refs
    ELSE AddReference(refs, refKeyOf(node), filename, pos)

\* The selected identifier follows the selector expression and its operand,
\* which is one identifier
processSelectorReference(refs, node, filename, pos) ==
    IF node.class = "none" THEN refs
    ELSE AddReference(refs, refKeyOf(node), filename, pos + 2)

ReferenceOfNode(refs, node, filename, pos) ==
    CASE node.type = "Ident" -> processIdentReference(refs, node, filename, pos)
      [] node.type = "SelectorExpr" -> processSelectorReference(refs, node, filename, pos)
      [] OTHER -> refs

RECURSIVE findReferencesInFile(_, _, _)
findReferencesInFile(refs, file, n) ==
    IF n = 0 THEN refs
    ELSE CHOOSE after \in
             { ReferenceOfNode(before, file.nodes[n], file.File, n) :
                   before \in { findReferencesInFile(refs, file, n - 1) } } : TRUE

RECURSIVE ReferencesOfFiles(_, _, _)
ReferencesOfFiles(refs, pkg, n) ==
    IF n = 0 THEN refs
    ELSE CHOOSE after \in
             { findReferencesInFile(before, pkg.Syntax[n], Len(pkg.Syntax[n].nodes)) :
                   before \in { ReferencesOfFiles(refs, pkg, n - 1) } } : TRUE

RECURSIVE findReferences(_, _, _)
findReferences(refs, pkgs, n) ==
    IF n = 0 THEN refs
    ELSE ReferencesOfFiles(findReferences(refs, pkgs, n - 1), pkgs[n], Len(pkgs[n].Syntax))

FindReferences ==
    /\ pc = "findReferences"
    /\ references' = findReferences(references, packages, Len(packages))
    /\ pc' = "identifyMainPackages"
    /\ UNCHANGED << loaded, config, packages, symbols, reachable,
                    mainPackages, queue, visited, expanded, next, result, stdout, exit >>

----------------------------------------------------------------------------
\* analyzer.go: identifyMainPackages

IsMain(pkg) == pkg.Name = S_main

\* identifyMainPackages without the fallback to all packages
identifyMainPackages_NoFallback(pkgs) == SelectSeq(pkgs, IsMain)

identifyMainPackages(pkgs) ==
    IF SelectSeq(pkgs, IsMain) = <<>> THEN pkgs ELSE SelectSeq(pkgs, IsMain)

IdentifyMainPackages ==
    /\ pc = "identifyMainPackages"
    /\ mainPackages' = mainPackages \o identifyMainPackages(packages)
    /\ pc' = "findEntryPoints"
    /\ stdout' = Say(IF SelectSeq(packages, IsMain) = <<>>
                     THEN << "identifyMainPackages" >>
                     ELSE << "identifyMainPackages" >> \o
                          [ i \in 1..Len(SelectSeq(packages, IsMain)) |-> "identifyMainPackages" ])
    /\ UNCHANGED << loaded, config, packages, symbols, references, reachable,
                    queue, visited, expanded, next, result, exit >>

----------------------------------------------------------------------------
\* reachability.go

\* fileContainsSymbol: some declaration node of the file has the symbol's
\* name and a kind that goes with the symbol's
fileContainsSymbol(file, symbol) ==
    \E i \in 1..Len(file.nodes) :
        LET node == file.nodes[i]
        IN  /\ node.name = symbol.Name
            /\ \/ node.type = "FuncDecl" /\ symbol.Kind = S_function
               \/ node.type = "TypeSpec" /\ symbol.Kind = S_type
               \/ node.type = "ValueSpec" /\ symbol.Kind \in {S_variable, S_constant}

\* The walk of one file appending the keys of the functions used only
RECURSIVE ReferencedInFile_FuncsOnly(_, _, _)
ReferencedInFile_FuncsOnly(symbolKey, file, n) ==
    IF n = 0 THEN <<>>
    ELSE LET node == file.nodes[n]
             before == ReferencedInFile_FuncsOnly(symbolKey, file, n - 1)
         IN  IF /\ node.type \in {"Ident", "SelectorExpr"}
                /\ node.class = "Func"
                /\ refKeyOf(node) # symbolKey
             THEN Append(before, refKeyOf(node))
             ELSE before

\* The keys that the walk of one file appends to referenced
RECURSIVE ReferencedInFile(_, _, _)
ReferencedInFile(symbolKey, file, n) ==
    IF n = 0 THEN <<>>
    ELSE LET node == file.nodes[n]
             before == ReferencedInFile(symbolKey, file, n - 1)
         IN  IF /\ node.type \in {"Ident", "SelectorExpr"}
                /\ node.class # "none"
                /\ refKeyOf(node) # symbolKey
             THEN Append(before, refKeyOf(node))
             ELSE before

RECURSIVE ReferencedInFiles(_, _, _, _)
ReferencedInFiles(symbolKey, symbol, files, n) ==
    IF n = 0 THEN <<>>
    ELSE ReferencedInFiles(symbolKey, symbol, files, n - 1) \o
         (IF fileContainsSymbol(files[n], symbol)
          THEN ReferencedInFile(symbolKey, files[n], Len(files[n].nodes))
          ELSE <<>>)

RECURSIVE ReferencedInPackages(_, _, _, _)
ReferencedInPackages(symbolKey, symbol, pkgs, n) ==
    IF n = 0 THEN <<>>
    ELSE ReferencedInPackages(symbolKey, symbol, pkgs, n - 1) \o
         (IF pkgs[n].PkgPath = symbol.Package
          THEN ReferencedInFiles(symbolKey, symbol, pkgs[n].Syntax, Len(pkgs[n].Syntax))
          ELSE <<>>)

findReferencedSymbols(symbolKey) ==
    IF symbolKey \notin DOMAIN symbols THEN <<>>
    ELSE ReferencedInPackages(symbolKey, symbols[symbolKey], packages, Len(packages))

\* The orders in which a range over a map may yield the keys S
Orders(S) == { f \in [1..Cardinality(S) -> S] : Range(f) = S }

\* entryKey without the init functions
entryKey_NoInit(pkg, name) ==
    LET key == getSymbolKey(pkg.PkgPath, name, S_function)
    IN  IF key \in DOMAIN symbols /\ name # S_init THEN << key >> ELSE <<>>

\* The main or init function of an entry-point package, when it is a symbol
entryKey(pkg, name) ==
    LET key == getSymbolKey(pkg.PkgPath, name, S_function)
    IN  IF key \in DOMAIN symbols THEN << key >> ELSE <<>>

\* The exported symbols of every package that reach does not hold
exportedKeys_AnyPackage(pkg, reach) ==
    { key \in DOMAIN symbols : symbols[key].Exported /\ key \notin reach }

\* The exported symbols of an entry-point package that reach does not hold
exportedKeys(pkg, reach) ==
    { key \in DOMAIN symbols :
        /\ symbols[key].Package = pkg.PkgPath
        /\ symbols[key].Exported
        /\ key \notin reach }

\* findEntryPoints: one entry-point package
FindEntryPoints ==
    /\ pc = "findEntryPoints"
    /\ next <= Len(mainPackages)
    /\ LET pkg == mainPackages[next]
           entries == entryKey(pkg, S_main) \o entryKey(pkg, S_init)
           reach == reachable \cup Range(entries)
       IN  \E order \in Orders(exportedKeys(pkg, reach)) :
               /\ queue' = queue \o entries \o order
               /\ reachable' = reach \cup Range(order)
    /\ next' = next + 1
    /\ UNCHANGED << loaded, config, pc, packages, symbols, references,
                    mainPackages, visited, expanded, result, stdout, exit >>

\* traceReachability: the queue of entry points is complete
StartTrace ==
    /\ pc = "findEntryPoints"
    /\ next > Len(mainPackages)
    /\ pc' = "traceReachability"
    /\ stdout' = Say(<< "traceReachability", "traceReachability" >>)
    /\ UNCHANGED << loaded, config, packages, symbols, references, reachable,
                    mainPackages, queue, visited, expanded, next, result, exit >>

\* The loop over referencedSymbols marking without appending to the queue
MarkReferenced_NoEnqueue(reach, q, referenced, n) ==
    << reach \cup { referenced[i] : i \in 1..n }, q >>

\* The loop over referencedSymbols leaving at the first key that is marked
\* already
RECURSIVE MarkReferenced_Break(_, _, _, _)
MarkReferenced_Break(reach, q, referenced, n) ==
    IF n = 0 \/ referenced[1] \in reach THEN << reach, q >>
    ELSE MarkReferenced_Break(reach \cup {referenced[1]}, Append(q, referenced[1]),
                              Tail(referenced), n - 1)

\* The loop over referencedSymbols without the test of a.reachable
MarkReferenced_Always(reach, q, referenced, n) ==
    << reach \cup { referenced[i] : i \in 1..n }, q \o SubSeq(referenced, 1, n) >>

\* The loop over referencedSymbols appending to the queue without marking
MarkReferenced_NoMark(reach, q, referenced, n) ==
    << reach, q \o SelectSeq(SubSeq(referenced, 1, n), LAMBDA key : key \notin reach) >>

\* The loop over referencedSymbols, n of them left: <<reachable, queue>>
\* after it
RECURSIVE MarkReferenced(_, _, _, _)
MarkReferenced(reach, q, referenced, n) ==
    IF n = 0 THEN << reach, q >>
    ELSE LET refSymbol == Head(referenced)
         IN  IF refSymbol \notin reach
             THEN MarkReferenced(reach \cup {refSymbol}, Append(q, refSymbol),
                                 Tail(referenced), n - 1)
             ELSE MarkReferenced(reach, q, Tail(referenced), n - 1)

\* One turn of the loop without the test of visited
Trace_NoVisited ==
    /\ pc = "traceReachability"
    /\ queue # <<>>
    /\ LET current == Head(queue)
           referencedSymbols == findReferencedSymbols(current)
           after == MarkReferenced(reachable, Tail(queue), referencedSymbols,
                                   Len(referencedSymbols))
       IN  /\ visited' = visited \cup {current}
           /\ expanded' = expanded (+) SetToBag({current})
           /\ reachable' = after[1]
           /\ queue' = after[2]
    /\ UNCHANGED << loaded, config, pc, packages, symbols, references,
                    mainPackages, next, result, stdout, exit >>

\* traceReachability: one turn of the loop
Trace ==
    /\ pc = "traceReachability"
    /\ queue # <<>>
    /\ LET current == Head(queue)
       IN  IF current \in visited
           THEN /\ queue' = Tail(queue)
                /\ UNCHANGED << visited, expanded, reachable >>
           ELSE LET referencedSymbols == findReferencedSymbols(current)
                    after == MarkReferenced(reachable, Tail(queue), referencedSymbols,
                                            Len(referencedSymbols))
                IN  /\ visited' = visited \cup {current}
                    /\ expanded' = expanded (+) SetToBag({current})
                    /\ reachable' = after[1]
                    /\ queue' = after[2]
    /\ UNCHANGED << loaded, config, pc, packages, symbols, references,
                    mainPackages, next, result, stdout, exit >>

\* traceReachability: the queue is empty
EndTrace ==
    /\ pc = "traceReachability"
    /\ queue = <<>>
    /\ pc' = "findOrphans"
    /\ stdout' = Say(<< "traceReachability" >>)
    /\ UNCHANGED << loaded, config, packages, symbols, references, reachable,
                    mainPackages, queue, visited, expanded, next, result, exit >>

\* isTestFunction without the Example prefix
isTestFunction_NoExample(name) ==
    \/ HasPrefix(name, S_Test)
    \/ HasPrefix(name, S_Benchmark)

isTestFunction(name) ==
    \/ HasPrefix(name, S_Test)
    \/ HasPrefix(name, S_Benchmark)
    \/ HasPrefix(name, S_Example)

\* findOrphans with the test on reachable inverted
orphanKeys_Inverted ==
    { key \in DOMAIN symbols : ~isTestFunction(symbols[key].Name) /\ key \in reachable }

\* The keys whose symbols findOrphans appends
orphanKeys ==
    { key \in DOMAIN symbols : ~isTestFunction(symbols[key].Name) /\ key \notin reachable }

\* findOrphans: the symbols appended, each as often as it is appended (the
\* order of the slice is the order in which the map yields its keys)
findOrphans ==
    [ symbol \in { symbols[key] : key \in orphanKeys } |->
        Cardinality({ key \in orphanKeys : symbols[key] = symbol }) ]

\* Analyze: findOrphans and the result
FindOrphans ==
    /\ pc = "findOrphans"
    /\ result' = Returned(<< [TotalSymbols |-> Cardinality(DOMAIN symbols),
                             ReachableSymbols |-> Cardinality(reachable),
                             MainPackages |-> Len(mainPackages),
                             OrphanedSymbols |-> findOrphans,
                             ExcludedPackages |-> config.Exclude,
                             IncludedTests |-> config.IncludeTests] >>, "")
    /\ pc' = "done"
    /\ UNCHANGED << loaded, config, packages, symbols, references, reachable,
                    mainPackages, queue, visited, expanded, next, stdout, exit >>

----------------------------------------------------------------------------
\* symbols.go: runAnalysis after Analyze, and main

\* Analyze returned an error: runAnalysis returns it, main writes it to
\* standard error and exits with 1
RunAnalysisFails ==
    /\ pc = "done"
    /\ result.err # ""
    /\ exit' = << 1 >>
    /\ pc' = "exited"
    /\ UNCHANGED << loaded, config, packages, symbols, references, reachable,
                    mainPackages, queue, visited, expanded, next, result, stdout >>

\* Analyze returned a result: outputJSON or PrintResults writes it, and main
\* returns
Output ==
    /\ pc = "done"
    /\ result.err = ""
    /\ stdout' = stdout \o (IF config.OutputJSON THEN << "outputJSON" >>
                             ELSE << "PrintResults" >>)
    /\ exit' = << 0 >>
    /\ pc' = "exited"
    /\ UNCHANGED << loaded, config, packages, symbols, references, reachable,
                    mainPackages, queue, visited, expanded, next, result >>

Next ==
    \/ LoadProjectFails
    \/ LoadProject
    \/ FindSymbols
    \/ FindReferences
    \/ IdentifyMainPackages
    \/ FindEntryPoints
    \/ StartTrace
    \/ Trace
    \/ EndTrace
    \/ FindOrphans
    \/ RunAnalysisFails
    \/ Output

Spec == Init /\ [][Next]_vars

\* Analyze is sequential code that runs on until it returns: a step that
\* can be taken is taken
FairSpec == Spec /\ WF_vars(Next)

\* The runs of the command line under every configuration
SpecCLI == InitCLI /\ [][Next]_vars

----------------------------------------------------------------------------
\* The terms of the claims

\* Analyze returned a result
Completed == pc \in {"done", "exited"} /\ result.err = ""
\* traceReachability has finished
Traced == pc = "findOrphans" \/ Completed
\* findEntryPoints has begun
Tracing == pc \in {"findEntryPoints", "traceReachability", "findOrphans"} \/ Completed
\* The loop of traceReachability has ended
QueueEmpty == (pc = "traceReachability" /\ queue = <<>>) \/ Traced

Key(pkgPath, name, kind) == pkgPath \o <<".">> \o name \o <<".">> \o kind

\* A name that starts with Test, Benchmark or Example
TestShaped(name) ==
    \E prefix \in {S_Test, S_Benchmark, S_Example} :
        /\ Len(name) >= Len(prefix)
        /\ \A i \in 1..Len(prefix) : name[i] = prefix[i]

\* The retained packages, and those among them that are entry-point packages
Retained == Range(packages)
LibraryMode == \A pkg \in Retained : pkg.Name # S_main
EntryPointPackages == IF LibraryMode THEN Retained ELSE { pkg \in Retained : pkg.Name = S_main }

\* The root keys that name a symbol of the symbol table
RootKeys ==
    { key \in DOMAIN symbols :
        \E pkg \in EntryPointPackages :
            \/ key = Key(pkg.PkgPath, S_main, S_function)
            \/ key = Key(pkg.PkgPath, S_init, S_function)
            \/ symbols[key].Package = pkg.PkgPath /\ symbols[key].Exported }

\* The kind of the symbol a declaration node declares
DeclKind(node) ==
    CASE node.type = "FuncDecl" -> S_function
      [] node.type = "TypeSpec" -> S_type
      [] node.type = "ValueSpec" -> IF node.tok = "const" THEN S_constant ELSE S_variable

DeclNodes(file) ==
    { file.nodes[i] : i \in { j \in 1..Len(file.nodes) :
          file.nodes[j].type \in {"FuncDecl", "TypeSpec", "ValueSpec"} } }

\* The target keys of the resolved use-sites of a file
UseTargets(file) ==
    { Key(file.nodes[i].pkg, file.nodes[i].name, getObjectKind(file.nodes[i].class)) :
        i \in { j \in 1..Len(file.nodes) :
                  file.nodes[j].type \in {"Ident", "SelectorExpr"} /\ file.nodes[j].class # "none" } }

\* The containing files of a symbol, by the edge-resolution rule: the files
\* of its package that declare its name with its kind at top level
ContainingFiles(symbol) ==
    UNION { { pkg.Syntax[i] : i \in { j \in 1..Len(pkg.Syntax) :
                \E node \in DeclNodes(pkg.Syntax[j]) :
                    node.top /\ node.name = symbol.Name /\ DeclKind(node) = symbol.Kind } } :
            pkg \in { q \in Retained : q.PkgPath = symbol.Package } }

\* The edge-resolution rule: an edge from symbol key a to key b
Edge(a, b) ==
    /\ a \in DOMAIN symbols
    /\ a # b
    /\ \E file \in ContainingFiles(symbols[a]) : b \in UseTargets(file)

\* The keys that the traversal of findReferencedSymbols reaches from a set
RECURSIVE CloseUnder(_)
CloseUnder(S) ==
    LET T == S \cup UNION { Range(findReferencedSymbols(key)) : key \in S }
    IN  IF T = S THEN S ELSE CloseUnder(T)

\* The outgoing edges of a symbol key under the edge-resolution rule, and
\* the keys reached from a set along them
EdgeTargets(a) ==
    IF a \in DOMAIN symbols
    THEN UNION { UseTargets(file) : file \in ContainingFiles(symbols[a]) } \ {a}
    ELSE {}

RECURSIVE CloseEdge(_)
CloseEdge(S) ==
    LET T == S \cup UNION { EdgeTargets(key) : key \in S }
    IN  IF T = S THEN S ELSE CloseEdge(T)

\* The top-level declaration whose span holds node j of a file: the last
\* top-level declaration node at or before j (0: none)
TopDeclIndex(file, j) ==
    LET tops == { i \in 1..j : /\ file.nodes[i].type \in {"FuncDecl", "TypeSpec", "ValueSpec"}
                               /\ file.nodes[i].top }
    IN  IF tops = {} THEN 0 ELSE CHOOSE i \in tops : \A k \in tops : k <= i

\* The target keys of the resolved use-sites inside the span of the
\* top-level declaration at node i of a file
SpanTargets(file, i) ==
    { Key(file.nodes[j].pkg, file.nodes[j].name, getObjectKind(file.nodes[j].class)) :
        j \in { k \in 1..Len(file.nodes) :
                  /\ file.nodes[k].type \in {"Ident", "SelectorExpr"}
                  /\ file.nodes[k].class # "none"
                  /\ TopDeclIndex(file, k) = i } }

\* The outgoing edges of a symbol key when edges are scoped to the spans of
\* its top-level declarations, and the keys reached from a set along them
SpanEdgeTargets(a) ==
    IF a \in DOMAIN symbols
    THEN UNION { UNION { SpanTargets(file, i) :
                           i \in { k \in 1..Len(file.nodes) :
                                     /\ file.nodes[k].type \in {"FuncDecl", "TypeSpec", "ValueSpec"}
                                     /\ file.nodes[k].top
                                     /\ file.nodes[k].name = symbols[a].Name
                                     /\ DeclKind(file.nodes[k]) = symbols[a].Kind } } :
                   file \in UNION { Range(pkg.Syntax) :
                                      pkg \in { q \in Retained : q.PkgPath = symbols[a].Package } } }
         \ {a}
    ELSE {}

RECURSIVE CloseSpan(_)
CloseSpan(S) ==
    LET T == S \cup UNION { SpanEdgeTargets(key) : key \in S }
    IN  IF T = S THEN S ELSE CloseSpan(T)

\* The main and init functions of the retained packages that are symbols
MainInitKeys ==
    { key \in DOMAIN symbols :
        \E pkg \in Retained : \/ key = Key(pkg.PkgPath, S_main, S_function)
                               \/ key = Key(pkg.PkgPath, S_init, S_function) }

\* The places that declare a key, at any depth: package, file and node
\* indexes, in the order findSymbols visits them
DeclSites(key) ==
    { site \in UNION { UNION { { << p, f, n >> : n \in 1..Len(packages[p].Syntax[f].nodes) } :
                                f \in 1..Len(packages[p].Syntax) } :
                        p \in 1..Len(packages) } :
        LET node == packages[site[1]].Syntax[site[2]].nodes[site[3]]
        IN  /\ node.type \in {"FuncDecl", "TypeSpec", "ValueSpec"}
            /\ node.name # S_blank
            /\ Key(packages[site[1]].PkgPath, node.name, DeclKind(node)) = key }

Before(s, t) ==
    \/ s[1] < t[1]
    \/ s[1] = t[1] /\ s[2] < t[2]
    \/ s[1] = t[1] /\ s[2] = t[2] /\ s[3] <= t[3]

LastSite(key) == CHOOSE s \in DeclSites(key) : \A t \in DeclSites(key) : Before(t, s)

\* The keys some declaration of the retained packages has
DeclaredKeys ==
    UNION { UNION { { Key(pkg.PkgPath, node.name, DeclKind(node)) :
                        node \in { d \in DeclNodes(file) : d.name # S_blank } } :
                    file \in Range(pkg.Syntax) } : pkg \in Retained }

\* The loader returned nothing usable: no package at all, or an error
LoadFailed == loaded = <<>> \/ result.err = "loading project"

Reported == DOMAIN result.value[1].OrphanedSymbols
ReportedCount == BagCardinality(result.value[1].OrphanedSymbols)

----------------------------------------------------------------------------
\* C1: After Analyze completes, the reported orphans are exactly the symbols
\* of the symbol table whose key is not reachable and whose name does not
\* start with Test, Benchmark or Example, each reported once.
C1_OrphansExact ==
    Completed =>
        /\ Reported = { symbols[key] : key \in
                          { k \in DOMAIN symbols :
                              k \notin reachable /\ ~TestShaped(symbols[k].Name) } }
        /\ \A symbol \in Reported : result.value[1].OrphanedSymbols[symbol] = 1

\* A run that reports an orphan, leaves out an unreachable test-shaped symbol
\* and leaves out a reachable one
C1_Witness ==
    /\ Completed
    /\ Reported # {}
    /\ \E k \in DOMAIN symbols : k \notin reachable /\ TestShaped(symbols[k].Name)
    /\ \E k \in DOMAIN symbols : k \in reachable /\ ~TestShaped(symbols[k].Name)

\* C2: After traceReachability, every root key (main, init, or an exported
\* symbol of an entry-point package) that names a symbol of the table is in
\* the reachable set.
C2_RootSubsumption == Traced => RootKeys \subseteq reachable

\* Tracing has finished with a main function, an init function and an
\* exported symbol among the roots
C2_Witness ==
    /\ Traced
    /\ \E pkg \in EntryPointPackages :
          /\ Key(pkg.PkgPath, S_main, S_function) \in RootKeys
          /\ Key(pkg.PkgPath, S_init, S_function) \in RootKeys
          /\ \E key \in RootKeys : symbols[key].Package = pkg.PkgPath /\ symbols[key].Exported

\* C3: In every state of the traversal, a symbol of the symbol table is
\* marked reachable only if it is a root or an already-reachable symbol has
\* an edge to it under the edge-resolution rule.
C3_NoPhantom ==
    Tracing =>
        \A key \in reachable \cap DOMAIN symbols :
            \/ key \in RootKeys
            \/ \E from \in reachable : Edge(from, key)

C5_ReachableInTable == Tracing => reachable \subseteq DOMAIN symbols

\* C6: In every AnalysisResult, ReachableSymbols plus the number of reported
\* orphans is at most TotalSymbols, with equality whenever no symbol of the
\* table has a test-shaped name.
C6_ReportEquivalence ==
    Completed =>
        /\ result.value[1].ReachableSymbols + ReportedCount <= result.value[1].TotalSymbols
        /\ (\A key \in DOMAIN symbols : ~TestShaped(symbols[key].Name))
           => result.value[1].ReachableSymbols + ReportedCount = result.value[1].TotalSymbols

\* C7: A target key that is absent from the symbol table is discarded when a
\* popped key is expanded: no turn of the loop puts such a key into the queue
\* or into the reachable set.
C7_UnknownTargetsDiscarded ==
    [][ pc = "traceReachability" =>
          /\ (Range(queue') \ DOMAIN symbols) \subseteq Range(queue)
          /\ (reachable' \ DOMAIN symbols) = (reachable \ DOMAIN symbols) ]_vars

\* C8: No symbol of any kind whose name begins with Test, Benchmark or
\* Example is among the reported orphans, reachable or not.
C8_TestExclusion ==
    Completed => \A symbol \in Reported : ~TestShaped(symbol.Name)

\* A completed run whose table holds a test-shaped function, type, variable
\* and constant, one of them reachable and one not
C8_Witness ==
    /\ Completed
    /\ \A kind \in {S_function, S_type, S_variable, S_constant} :
          \E key \in DOMAIN symbols : symbols[key].Kind = kind /\ TestShaped(symbols[key].Name)
    /\ \E key \in DOMAIN symbols \ reachable : TestShaped(symbols[key].Name)
    /\ \E key \in DOMAIN symbols \cap reachable : TestShaped(symbols[key].Name)

\* C9: The membership of the final reachable set, and so of the orphan set,
\* is fixed by the packages, symbols and use-sites: whatever the order in
\* which the symbol map is ranged over and whatever the order of the queue,
\* the traversal stays within the keys reached from the roots and ends with
\* exactly those.
C9_Deterministic ==
    /\ pc = "traceReachability" => reachable \subseteq CloseUnder(RootKeys)
    /\ QueueEmpty => reachable = CloseUnder(RootKeys)
    /\ Completed =>
          Reported = { symbols[key] : key \in
                         { k \in DOMAIN symbols \ CloseUnder(RootKeys) :
                             ~TestShaped(symbols[k].Name) } }

\* The traversal starts with the exported symbols TestF and Exp of cmd in
\* the queue, the map having yielded TestF before Exp
C9_Witness ==
    /\ pc = "traceReachability"
    /\ visited = {}
    /\ \E i, j \in 1..Len(queue) :
          /\ i < j
          /\ queue[i] = Key(S_cmd, S_TestF, S_function)
          /\ queue[j] = Key(S_cmd, S_Exp, S_function)

\* C10: When no retained package is named main, every retained package is an
\* entry-point package, every exported symbol of every retained package is
\* a root, and a reported orphan is neither exported nor reached from an
\* exported symbol.
C10_LibraryMode ==
    LibraryMode =>
        /\ Tracing => mainPackages = packages
        /\ (pc = "traceReachability" /\ visited = {}) =>
              \A key \in DOMAIN symbols : symbols[key].Exported => key \in Range(queue)
        /\ Completed =>
              \A symbol \in Reported :
                  /\ ~symbol.Exported
                  /\ Key(symbol.Package, symbol.Name, symbol.Kind) \notin
                        CloseUnder({ key \in DOMAIN symbols : symbols[key].Exported })

\* A completed run over two packages, none named main, with exported symbols
\* in both and an orphan reported
C10_Witness ==
    /\ Completed
    /\ LibraryMode
    /\ Cardinality(Retained) = 2
    /\ \A pkg \in Retained :
          \E key \in DOMAIN symbols : symbols[key].Package = pkg.PkgPath /\ symbols[key].Exported
    /\ Reported # {}

\* C11: Every exported symbol of an entry-point package is a root: it is
\* reachable after tracing and never reported, used or not; and when a main
\* package exists, the exported symbols of the other packages are not among
\* the roots the traversal starts from.
C11_ExportedSurface ==
    /\ Traced =>
          \A key \in DOMAIN symbols :
              (symbols[key].Exported /\
               \E pkg \in EntryPointPackages : pkg.PkgPath = symbols[key].Package)
              => /\ key \in reachable
                 /\ Completed => symbols[key] \notin Reported
    /\ (pc = "traceReachability" /\ visited = {} /\ ~LibraryMode) =>
          \A key \in DOMAIN symbols :
              (symbols[key].Exported /\
               \A pkg \in Retained : pkg.PkgPath = symbols[key].Package => pkg.Name # S_main)
              => key \notin Range(queue) /\ key \notin reachable

\* A completed run with a main package: Exp of cmd, which nothing uses, is
\* not reported, and Pub of util, exported by a package that is not an
\* entry-point package, is
C11_Witness ==
    /\ Completed
    /\ ~LibraryMode
    /\ Key(S_cmd, S_Exp, S_function) \in DOMAIN symbols \ DOMAIN references
    /\ \E symbol \in Reported : symbol.Name = S_Pub /\ symbol.Package = S_util

\* C12: No reported orphan is reachable, under the edge-resolution rule, from
\* the main function or the init function of a retained package.
C12_OrphansNotFromMainInit ==
    Completed =>
        \A symbol \in Reported :
            Key(symbol.Package, symbol.Name, symbol.Kind) \notin CloseEdge(MainInitKeys)

\* C13: When the loader returns no packages at all or a fatal error, Analyze
\* returns a load-failure error and no result.
C13_LoadFailure ==
    pc \in {"done", "exited"} =>
        /\ LoadFailed => result.err = "loading project"
        /\ result.err # "" => result.value = <<>>

\* C14: A package with errors is dropped before indexing: it is not
\* retained, none of its declarations is a symbol, none of its use-sites is a
\* reference or yields an edge, it is not an entry-point package, and the
\* analysis of the others goes on to its end without error.
C14_PackageErrorsIsolated ==
    (pc # "loadProject" /\ result.err = "") =>
        /\ \A i \in 1..Len(loaded) :
               loaded[i].Errors =>
                   /\ loaded[i] \notin Range(packages)
                   /\ loaded[i] \notin Range(mainPackages)
                   /\ \A key \in DOMAIN symbols : symbols[key].Package # loaded[i].PkgPath
                   /\ \A key \in DOMAIN references : \A r \in Range(references[key]) :
                          r.File \notin Range(loaded[i].CompiledGoFiles)
        /\ \A key \in reachable :
               \/ key \in RootKeys
               \/ \E pkg \in Retained : \E file \in Range(pkg.Syntax) : key \in UseTargets(file)
        /\ pc \in {"findSymbols", "identifyMainPackages", "findEntryPoints",
                    "findOrphans", "done"} => ENABLED Next
        /\ pc = "traceReachability" => queue # <<>> \/ ENABLED EndTrace
        /\ pc = "exited" => exit = << 0 >>

\* A completed run over a package with errors and a package without: stale
\* of lib, used by the dropped package alone, is reported
C14_Witness ==
    /\ Completed
    /\ \E i \in 1..Len(loaded) : loaded[i].Errors
    /\ \E symbol \in Reported : symbol.Name = S_stale /\ symbol.Package = S_lib

\* C15: Every symbol of the symbol table comes from a top-level declaration;
\* a declaration inside a function body never becomes a symbol.
C15_TopLevelOnly ==
    \A key \in DOMAIN symbols :
        \E pkg \in Retained : \E file \in Range(pkg.Syntax) : \E node \in DeclNodes(file) :
            node.top /\ Key(pkg.PkgPath, node.name, DeclKind(node)) = key

\* C16: In every state no symbol of the symbol table has the name "_", and no
\* reported orphan has it.
C16_BlankNeverDeclared ==
    /\ \A key \in DOMAIN symbols : symbols[key].Name # S_blank
    /\ Completed => \A symbol \in Reported : symbol.Name # S_blank

\* A completed run over a file that declares a blank function, type,
\* variable and constant beside a file whose declarations are symbols
C16_Witness ==
    /\ Completed
    /\ symbols # EmptyMap
    /\ \E pkg \in Retained : \E file \in Range(pkg.Syntax) :
          \A kind \in {S_function, S_type, S_variable, S_constant} :
              \E node \in DeclNodes(file) : node.name = S_blank /\ DeclKind(node) = kind

\* C17: For the same roots, the keys reached with edges scoped to the span of
\* each declaration are all reached by the traversal, so every reported
\* orphan is an orphan of the span-scoped graph too.
C17_NoFalsePositives ==
    /\ QueueEmpty => CloseSpan(RootKeys) \subseteq reachable
    /\ Completed =>
          \A symbol \in Reported :
              Key(symbol.Package, symbol.Name, symbol.Kind) \notin CloseSpan(RootKeys)

\* A completed run in which the traversal reached a symbol that the
\* span-scoped graph does not reach, and an orphan is reported
C17_Witness ==
    /\ Completed
    /\ (reachable \cap DOMAIN symbols) \ CloseSpan(RootKeys) # {}
    /\ CloseSpan(RootKeys) \ RootKeys # {}
    /\ Reported # {}

\* C18: Declarations that share (package, name, kind) have one entry of the
\* symbol table, that of the later declaration; a use that resolves to the
\* key in a file of a reachable symbol marks the key, and no declaration of
\* a reachable key is reported.
C18_KeyCollapse ==
    /\ pc \notin {"loadProject", "findSymbols"} =>
          /\ DOMAIN symbols = DeclaredKeys
          /\ \A key \in DOMAIN symbols :
                 LET site == LastSite(key)
                 IN  /\ symbols[key].File = packages[site[1]].CompiledGoFiles[site[2]]
                     /\ symbols[key].Start = site[3]
    /\ QueueEmpty =>
          \A key \in DOMAIN symbols :
              (\E from \in reachable : key \in Range(findReferencedSymbols(from)))
              => key \in reachable
    /\ Completed =>
          \A symbol \in Reported :
              Key(symbol.Package, symbol.Name, symbol.Kind) \notin reachable

\* A completed run over two methods named run: the key has two declarations
\* and one entry, and the use in Go has marked it
C18_Witness ==
    /\ Completed
    /\ Cardinality(DeclSites(Key(S_lib, S_run, S_function))) = 2
    /\ Key(S_lib, S_run, S_function) \in (reachable \cap DOMAIN symbols) \ RootKeys

\* C19: A run ends with a non-zero exit code exactly when loading or output
\* fails; a run whose analysis succeeds ends with exit code 0.
C19_ExitStatus ==
    pc = "exited" =>
        /\ exit # << 0 >> <=> LoadFailed
        /\ ~LoadFailed => exit = << 0 >>

\* C20: When OutputJSON is set nothing but the JSON document is written to
\* standard output, whatever the value of Verbose: nothing before the output
\* step, and the document alone after it.
C20_JSONSilence ==
    config.OutputJSON =>
        /\ pc # "exited" => stdout = <<>>
        /\ pc = "exited" =>
               stdout = IF result.err = "" THEN << "outputJSON" >> ELSE <<>>

\* A JSON run with Verbose set that dropped a package with errors and an
\* excluded package and wrote the document
C20_Witness ==
    /\ pc = "exited"
    /\ config.OutputJSON /\ config.Verbose
    /\ \E i \in 1..Len(loaded) : loaded[i].Errors
    /\ \E i \in 1..Len(loaded) : ~loaded[i].Errors /\ loaded[i] \notin Range(packages)
    /\ stdout = << "outputJSON" >>

\* The references recorded at node n of a file
ReferencesAt(file, n) ==
    { << key, i >> \in UNION { { << k, j >> : j \in 1..Len(references[k]) } : k \in DOMAIN references } :
        references[key][i].File = file.File /\ references[key][i].Position = n }

\* findReferences has run
Referenced == pc \notin {"loadProject", "findSymbols", "findReferences"} /\ result.err = ""

\* C21: An identifier that is not a use adds no Reference and yields no
\* edge: the name of a declaration, the alias of an imported package (in the
\* import declaration and where it qualifies a name) and a field label that
\* the use-resolution map does not resolve.
C21_NonUsesExcluded ==
    Referenced =>
        \A pkg \in Retained : \A file \in Range(pkg.Syntax) : \A n \in 1..Len(file.nodes) :
            LET node == file.nodes[n]
            IN  (node.type = "Ident" /\ node.class \in {"none", "PkgName"}) =>
                    /\ ReferencesAt(file, n) = {}
                    /\ node.class = "PkgName" =>
                           /\ Key(node.pkg, node.name, S_unknown) \notin DOMAIN references
                           /\ \A key \in DOMAIN symbols :
                                  Key(node.pkg, node.name, S_unknown)
                                      \notin Range(findReferencedSymbols(key))

\* The files of a package in another order
ReorderFiles(pkg) ==
    { [pkg EXCEPT !.Syntax = [ i \in 1..Len(pkg.Syntax) |-> pkg.Syntax[f[i]] ],
                  !.CompiledGoFiles = [ i \in 1..Len(pkg.Syntax) |-> pkg.CompiledGoFiles[f[i]] ]] :
        f \in Orders(1..Len(pkg.Syntax)) }

\* The orders in which the packages pkgs and their files may be processed
Reorderings(pkgs) ==
    UNION { { q \in [1..Len(pkgs) -> UNION { ReorderFiles(pkgs[i]) : i \in 1..Len(pkgs) }] :
                \A i \in 1..Len(pkgs) : q[i] \in ReorderFiles(pkgs[f[i]]) } :
            f \in Orders(1..Len(pkgs)) }

\* The file and position of each declaration of a key
DeclPlaces(key) ==
    { << packages[site[1]].CompiledGoFiles[site[2]], site[3] >> : site \in DeclSites(key) }

\* C22 as stated: in whatever order the packages and files are processed,
\* findSymbols produces the same symbol table, the same keys with the same
\* records, also when two declarations collide on one key.
C22_OrderInsensitive ==
    pc = "findReferences" =>
        \A q \in Reorderings(packages) : findSymbols(EmptyMap, q, Len(q)) = symbols

\* C22: In whatever order the packages and files are processed, findSymbols
\* produces the same keys, and the same record for every key declared at one
\* place; a key with declarations at several places gets the record of one of
\* them, the same name, kind, package and export status in every order.
C22_OrderInsensitiveKeys ==
    pc = "findReferences" =>
        \A q \in Reorderings(packages) :
            LET table == findSymbols(EmptyMap, q, Len(q))
            IN  /\ DOMAIN table = DOMAIN symbols
                /\ \A key \in DOMAIN table :
                       /\ Cardinality(DeclPlaces(key)) = 1 => table[key] = symbols[key]
                       /\ << table[key].File, table[key].Start >> \in DeclPlaces(key)
                       /\ [table[key] EXCEPT !.File = "", !.Start = 0]
                              = [symbols[key] EXCEPT !.File = "", !.Start = 0]

\* The symbol table of a package with two init functions in two files, whose
\* record for the key of init is another one when the files are processed in
\* the other order
C22_Witness ==
    /\ pc = "findReferences"
    /\ Cardinality(DeclPlaces(Key(S_lib, S_init, S_function))) = 2
    /\ \E q \in Reorderings(packages) :
           LET table == findSymbols(EmptyMap, q, Len(q))
           IN  /\ DOMAIN table = DOMAIN symbols
               /\ table[Key(S_lib, S_init, S_function)] # symbols[Key(S_lib, S_init, S_function)]

\* The stage that follows each stage of Analyze
NextStage ==
    { << "loadProject", "findSymbols" >>, << "findSymbols", "findReferences" >>,
      << "findReferences", "identifyMainPackages" >>,
      << "identifyMainPackages", "findEntryPoints" >>,
      << "findEntryPoints", "traceReachability" >>,
      << "traceReachability", "findOrphans" >>, << "findOrphans", "done" >> }

\* C23: The stages of Analyze run in the order loader, symbol extraction,
\* reference extraction, entry-point selection, tracing, orphan selection,
\* each writing its own part of the state and starting only while no error
\* was returned; when the loader fails Analyze returns at once, with an error
\* and no result, and the symbol table, the reference table and the
\* reachable set stay empty.
C23_StageOrder ==
    /\ [][/\ pc' # pc =>
                \/ << pc, pc' >> \in NextStage /\ result'.err = ""
                \/ pc = "loadProject" /\ pc' = "done" /\ result'.err # ""
                \/ pc = "done" /\ pc' = "exited"
          /\ packages' # packages => pc = "loadProject"
          /\ symbols' # symbols => pc = "findSymbols"
          /\ references' # references => pc = "findReferences"
          /\ mainPackages' # mainPackages => pc = "identifyMainPackages"
          /\ (reachable' # reachable \/ queue' # queue) =>
                pc \in {"findEntryPoints", "traceReachability"}
          /\ result' # result => pc \in {"loadProject", "findOrphans"}]_vars
    /\ [](pc \notin {"loadProject", "done", "exited"} => result.err = "")
    /\ [](result.err # "" =>
             /\ pc \in {"done", "exited"}
             /\ result.value = <<>>
             /\ packages = <<>> /\ mainPackages = <<>>
             /\ symbols = EmptyMap /\ references = EmptyMap /\ reachable = {}
             /\ queue = <<>> /\ visited = {})
    /\ [](result.value # <<>> => pc \in {"done", "exited"} /\ result.err = "")

\* A run on a project with a package in which the loader failed: main has
\* exited with 1
C23_Witness ==
    /\ pc = "exited"
    /\ result.err = "loading project"
    /\ loaded # <<>>
    /\ exit = << 1 >>

\* The keys a turn of the loop appends to the queue, after taking its head
Enqueued(before, after) == SubSeq(after, Len(before), Len(after))

\* C24: The loop of traceReachability terminates, also on use-graphs with
\* cycles: a turn of the loop marks and enqueues only keys that were not
\* marked, each once, and a traversal that has begun reaches the end of the
\* loop with the queue empty.
C24_Terminates ==
    /\ [][(pc = "traceReachability" /\ pc' = "traceReachability") =>
             LET added == Enqueued(queue, queue')
             IN  /\ queue' = Tail(queue) \o added
                 /\ reachable' = reachable \cup Range(added)
                 /\ \A i \in 1..Len(added) :
                        /\ added[i] \notin reachable
                        /\ \A j \in 1..Len(added) : added[j] = added[i] => j = i]_vars
    /\ (pc = "traceReachability") ~> (pc = "findOrphans" /\ queue = <<>>)

\* The loop has ended on a use-graph with a cycle: two keys that were both
\* expanded, each among the keys the other refers to
C24_Witness ==
    /\ pc = "findOrphans"
    /\ queue = <<>>
    /\ \E a, b \in visited :
           /\ a # b
           /\ b \in Range(findReferencedSymbols(a))
           /\ a \in Range(findReferencedSymbols(b))

\* C25: For a symbol A with package P, name N and kind K,
\* findReferencedSymbols returns exactly the target keys of the resolved
\* use-sites in the files of P that declare N with kind K at top level,
\* without A's own key; a file that declares N with another kind or inside a
\* function body only is no containing file of A.
C25_EdgeResolution ==
    pc = "identifyMainPackages" =>
        \A a \in DOMAIN symbols : Range(findReferencedSymbols(a)) = EdgeTargets(a)

\* The number of References of the buckets of the keys K
RECURSIVE ReferenceCount(_)
ReferenceCount(K) ==
    IF K = {} THEN 0
    ELSE LET key == CHOOSE k \in K : TRUE
         IN  Len(references[key]) + ReferenceCount(K \ {key})

\* The identifier nodes of the retained packages that the use-resolution map
\* resolves: package, file and node indexes
ResolvedIdents ==
    { site \in UNION { UNION { { << p, f, n >> : n \in 1..Len(packages[p].Syntax[f].nodes) } :
                                f \in 1..Len(packages[p].Syntax) } :
                        p \in 1..Len(packages) } :
        LET node == packages[site[1]].Syntax[site[2]].nodes[site[3]]
        IN  node.type = "Ident" /\ node.class # "none" }

\* C26: After findReferences the number of References over all buckets is
\* the number of identifier nodes that the use-resolution map resolves: one
\* Reference for each, the selected identifier of a selector expression
\* included.
C26_OneReferencePerUse ==
    pc = "identifyMainPackages" =>
        ReferenceCount(DOMAIN references) = Cardinality(ResolvedIdents)

\* C27: findReferencedSymbols is called on a key at most once in a
\* traversal, also when the key is in the queue more than once: the keys it
\* was called on are those of the visited set, each once.
C27_ExpandedOnce ==
    /\ BagToSet(expanded) = visited
    /\ \A key \in BagToSet(expanded) : CopiesIn(key, expanded) = 1

\* Two entry-point packages of one package path have both put the key of
\* main into the queue; the loop has expanded the key and has come to its
\* second occurrence
C27_Witness ==
    /\ pc = "traceReachability"
    /\ \E i, j \in 1..Len(mainPackages) : i # j /\ mainPackages[i].PkgPath = mainPackages[j].PkgPath
    /\ queue # <<>>
    /\ Head(queue) \in BagToSet(expanded)
    /\ Head(queue) = Key(S_cmd, S_main, S_function)

\* C28: At every turn of the loop of traceReachability the keys of the queue
\* and of the visited set are marked reachable, and a key marked reachable is
\* in the queue or in the visited set; when the queue is empty every
\* reachable key has been expanded.
C28_QueueVisitedReachable ==
    /\ pc = "traceReachability" =>
          /\ Range(queue) \subseteq reachable
          /\ visited \subseteq reachable
          /\ reachable \subseteq (Range(queue) \cup visited)
    /\ QueueEmpty => /\ reachable = visited
                     /\ reachable = BagToSet(expanded)

\* A turn of the loop after which keys are waiting in the queue that the
\* loop has put there, beside keys that were expanded
C28_Witness ==
    /\ pc = "traceReachability"
    /\ visited # {}
    /\ queue # <<>>
    /\ \E i \in 1..Len(queue) : queue[i] \notin RootKeys /\ queue[i] \notin visited
    /\ reachable = Range(queue) \cup visited

\* C29: The MainPackages count of the result is the number of retained
\* packages named main: 0 when the project has no main package.
C29_MainPackagesCount ==
    Completed =>
        result.value[1].MainPackages
            = Cardinality({ i \in 1..Len(packages) : packages[i].Name = S_main })

====
